---- MODULE Spec2Model ----
(***************************************************************************)
(* The buy-low/sell-high order-lifecycle automaton of                      *)
(* examples/strategy-simple (SimpleStrategy), driven by a host that calls  *)
(* on_start / on_event / on_timer / on_stop one at a time, and the         *)
(* skeleton of templates/strategy-template (MyStrategy) with its periodic  *)
(* status log.                                                             *)
(*                                                                         *)
(* Spec        one run of SimpleStrategy under a host that may deliver any *)
(*             event at any time                                           *)
(* HostSpec    the same under a host that delivers one terminal event per  *)
(*             outstanding order, oldest first                             *)
(* LiveSpec    HostSpec's host, fair in delivering terminal events         *)
(* RestartSpec Spec with on_start called again on a stopped instance       *)
(* MySpec      one run of MyStrategy with the host clock                   *)
(*                                                                         *)
(* Decimals are integers counted in the smallest price / quantity unit.    *)
(* Option<T> is a sequence of length <= 1: <<>> is None, <<x>> is Some(x). *)
(* A String built by join() is the sequence of the pieces that make it.    *)
(***************************************************************************)
EXTENDS Integers, Sequences, FiniteSets, TLC

VARIABLES
    config,        \* SimpleStrategy.config (immutable after new)
    phase,         \* SimpleStrategy.state.phase
    active_order,  \* SimpleStrategy.state.active_order
    meta,          \* SimpleStrategy.meta
    orders,        \* host: the commands received through ctx.place_order
    stops,         \* host: the reasons received through ctx.stop_strategy
    cancels,       \* host: number of ctx.cancel_all commands received
    nextId,        \* the next fresh ClientOrderId
    faulted,       \* a callback panicked (unwrap of None)
    run,           \* host lifecycle of the instance: "new", "started", "stopped"
    callLog,       \* log lines written by the most recent callback
    atEmit,        \* history: (phase, active_order) at each ctx.place_order call
    outstanding,   \* host: identifiers of the orders placed and not yet terminal
    bought,        \* host: number of buy orders that completed
    sold,          \* host: number of sell orders that completed
    last,          \* history: the most recent callback, its input and its pre-state
    my_state,      \* MyStrategy.state (the template's MyState)
    my_meta,       \* MyStrategy.instrument_meta
    my_ctx,        \* host of the template instance: clock, commands, log of the last callback
    my_run,        \* host lifecycle of the template instance
    my_last        \* history: the template's most recent callback and its pre-state

simpleVars == <<phase, active_order, meta, orders, stops, cancels, nextId,
                faulted, run, callLog, atEmit, outstanding, bought, sold, last>>

myVars == <<my_state, my_meta, my_ctx, my_run, my_last>>

vars == <<config, simpleVars, myVars>>

----------------------------------------------------------------------------
(* Bounds of the model *)

MaxPrice == 3
MaxSize == 3
MaxTick == 2
MaxLot == 2
MaxOrders == 4
MaxStarts == 2

Prices == 1..MaxPrice
Sizes == -1..MaxSize
Configs == [buy_price : Prices, sell_price : Prices, order_size : Sizes]

----------------------------------------------------------------------------
(* Option<T> *)

None == <<>>
Some(x) == <<x>>
is_some(o) == o # <<>>
is_none(o) == o = <<>>
unwrap(o) == o[1]

(* What ctx.instrument_meta can return: None, or the rounding rules. *)
InstrumentMetas == [tick : 1..MaxTick, lot : 1..MaxLot]
MetaLookups == {None} \cup {Some(m) : m \in InstrumentMetas}

(* The kinds of Event; "Other" stands for every kind the match does not name. *)
EventKinds == {"Quote", "OrderFilled", "OrderCompleted", "OrderCanceled",
               "OrderRejected", "ExchangeStateChanged", "Other"}

Phases == {"WaitingToBuy", "BuyPlaced", "WaitingToSell", "SellPlaced"}

----------------------------------------------------------------------------
(* bot_core::InstrumentMeta rounding *)

\* nearest multiple of step, a tie going up
RoundNearest(x, step) == ((2 * x + step) \div (2 * step)) * step
\* largest multiple of step that is <= x
RoundDown(x, step) == (x \div step) * step
\* smallest multiple of step that is >= x
RoundUp(x, step) == (0 - ((0 - x) \div step)) * step

round_price(m, p) == RoundNearest(p, m.tick)
round_qty(m, q) == RoundNearest(q, m.lot)
trunc_qty(m, q) == RoundDown(q, m.lot)

----------------------------------------------------------------------------
(* SimpleConfig::validate and the reason handed to stop_strategy *)

\* mutant: equal prices pass the price rule
validate_equal_ok(cfg) ==
    (IF cfg.buy_price > cfg.sell_price
        THEN <<"buy_price must be < sell_price">> ELSE <<>>)
    \o (IF cfg.order_size <= 0
        THEN <<"order_size must be > 0">> ELSE <<>>)

validate(cfg) ==
    (IF cfg.buy_price >= cfg.sell_price
        THEN <<"buy_price must be < sell_price">> ELSE <<>>)
    \o (IF cfg.order_size <= 0
        THEN <<"order_size must be > 0">> ELSE <<>>)

RECURSIVE join(_, _)
join(errs, sep) ==
    IF errs = <<>> THEN <<>>
    ELSE IF Len(errs) = 1 THEN <<errs[1]>>
    ELSE <<errs[1], sep>> \o join(Tail(errs), sep)

----------------------------------------------------------------------------
(* The strategy and its context as one record, so that a callback is the   *)
(* composition of its statements.                                          *)

Cur ==
    [phase |-> phase, active_order |-> active_order, meta |-> meta,
     orders |-> orders, stops |-> stops, cancels |-> cancels,
     nextId |-> nextId, faulted |-> faulted, log |-> <<>>,
     atEmit |-> atEmit, mid |-> None]

(* SimpleStrategy::new *)
NewState ==
    [phase |-> "WaitingToBuy", active_order |-> None, meta |-> None,
     orders |-> <<>>, stops |-> <<>>, cancels |-> 0,
     nextId |-> 1, faulted |-> FALSE, log |-> <<>>,
     atEmit |-> <<>>, mid |-> None]

(* StrategyContext *)
ctx_log(s, line) == [s EXCEPT !.log = Append(@, line)]
ctx_place_order(s, order) ==
    [s EXCEPT !.orders = Append(@, order),
              !.atEmit = Append(@, [phase |-> s.phase,
                                    active_order |-> s.active_order])]
ctx_stop_strategy(s, reason) == [s EXCEPT !.stops = Append(@, reason)]
ctx_cancel_all(s) == [s EXCEPT !.cancels = @ + 1]

(* a panic: the callback ends where it is *)
panic(s) == [s EXCEPT !.faulted = TRUE]

(* PlaceOrder::limit: the command, carrying a fresh client id *)
PlaceOrder_limit(id, side, price, qty) ==
    [client_id |-> id, side |-> side, price |-> price, qty |-> qty]

buy_price_of(s, cfg) == round_price(unwrap(s.meta), cfg.buy_price)
buy_qty_of(s, cfg) == round_qty(unwrap(s.meta), cfg.order_size)
sell_price_of(s, cfg) == round_price(unwrap(s.meta), cfg.sell_price)
\* mutant: the sell quantity rounded up to a lot
sell_qty_of_up(s, cfg) == RoundUp(cfg.order_size, unwrap(s.meta).lot)

sell_qty_of(s, cfg) == trunc_qty(unwrap(s.meta), cfg.order_size)

\* mutant: the identifier is recorded, the phase is not
buy_placed_nophase(s, order) ==
    [s EXCEPT !.active_order = Some(order.client_id),
              !.nextId = @ + 1]

buy_placed(s, order) ==
    [s EXCEPT !.active_order = Some(order.client_id),
              !.phase = "BuyPlaced",
              !.nextId = @ + 1]

sell_placed(s, order) ==
    [s EXCEPT !.active_order = Some(order.client_id),
              !.phase = "SellPlaced",
              !.nextId = @ + 1]

\* mutant: the command is handed to the host before the state is updated
place_buy_emit_first(s, cfg) ==
    IF is_none(s.meta) THEN panic(s)
    ELSE LET order == PlaceOrder_limit(s.nextId, "Buy",
                                       buy_price_of(s, cfg), buy_qty_of(s, cfg))
         IN ctx_log(buy_placed(ctx_place_order(s, order), order),
                    "info: BUY order placed")

place_buy(s, cfg) ==
    IF is_none(s.meta) THEN panic(s)
    ELSE LET order == PlaceOrder_limit(s.nextId, "Buy",
                                       buy_price_of(s, cfg), buy_qty_of(s, cfg))
         IN ctx_log(ctx_place_order(buy_placed(s, order), order),
                    "info: BUY order placed")

place_sell(s, cfg) ==
    IF is_none(s.meta) THEN panic(s)
    ELSE LET order == PlaceOrder_limit(s.nextId, "Sell",
                                       sell_price_of(s, cfg), sell_qty_of(s, cfg))
         IN ctx_log(ctx_place_order(sell_placed(s, order), order),
                    "info: SELL order placed")

----------------------------------------------------------------------------
(* The Strategy callbacks *)

\* mutant: no return after the stop request for missing metadata
start_missing_meta_noreturn(s, cfg) ==
    LET s1 == ctx_stop_strategy(s, <<"Instrument not found">>)
    IN IF validate(cfg) # <<>>
          THEN ctx_stop_strategy(s1, join(validate(cfg), "; "))
          ELSE place_buy(s1, cfg)

start_missing_meta(s, cfg) ==
    ctx_stop_strategy(s, <<"Instrument not found">>)

\* mutant: only the first message is reported
start_invalid_first(s, errors) ==
    ctx_stop_strategy(s, <<errors[1]>>)

start_invalid(s, errors) ==
    ctx_stop_strategy(s, join(errors, "; "))

\* mutant: the start logs and waits, placing nothing
start_valid_idle(s, cfg) ==
    ctx_log(s, "info: SimpleStrategy started")

start_valid(s, cfg) ==
    place_buy(ctx_log(s, "info: SimpleStrategy started"), cfg)

on_start(s, cfg, lookup) ==
    LET s1 == [s EXCEPT !.meta = lookup]
        errors == validate(cfg)
    IN IF is_none(s1.meta) THEN start_missing_meta(s1, cfg)
       ELSE IF errors # <<>> THEN start_invalid(s1, errors)
       ELSE start_valid(s1, cfg)

\* mutant: a partial fill is taken for a completion
arm_of_filled(ev) ==
    CASE ev \in {"OrderCompleted", "OrderFilled"} -> "completed"
      [] ev \in {"OrderCanceled", "OrderRejected"} -> "canceled_rejected"
      [] OTHER -> "ignored"

(* the arm of the match in on_event an event kind selects *)
arm_of(ev) ==
    CASE ev = "OrderCompleted" -> "completed"
      [] ev \in {"OrderCanceled", "OrderRejected"} -> "canceled_rejected"
      [] OTHER -> "ignored"

\* mutant: a completed sell goes back to waiting instead of buying again
on_completed_wait(s, cfg) ==
    CASE s.phase = "BuyPlaced" ->
            place_sell(ctx_log(s, "info: Buy filled"), cfg)
      [] s.phase = "SellPlaced" ->
            [s EXCEPT !.active_order = None, !.phase = "WaitingToBuy"]
      [] OTHER -> s

\* mutant: a completed buy parks in WaitingToSell, as the module doc's lifecycle reads
on_completed_hold(s, cfg) ==
    CASE s.phase = "BuyPlaced" ->
            [s EXCEPT !.active_order = None, !.phase = "WaitingToSell"]
      [] s.phase = "SellPlaced" ->
            place_buy(ctx_log(s, "info: Sell filled - cycle complete"), cfg)
      [] OTHER -> s

on_completed(s, cfg) ==
    CASE s.phase = "BuyPlaced" ->
            place_sell(ctx_log(s, "info: Buy filled"), cfg)
      [] s.phase = "SellPlaced" ->
            place_buy(ctx_log(s, "info: Sell filled - cycle complete"), cfg)
      [] OTHER -> s

reset_to_buy(s) ==
    LET s1 == [s EXCEPT !.active_order = None, !.phase = "WaitingToBuy"]
    IN [s1 EXCEPT !.mid = Some([phase |-> s1.phase,
                                active_order |-> s1.active_order])]

\* mutant: the reset is not followed by a new buy
on_canceled_rejected_noretry(s, cfg) ==
    reset_to_buy(ctx_log(s, "warn: Order canceled/rejected"))

\* mutant: the order of the side that was canceled is placed again
on_canceled_rejected_same_side(s, cfg) ==
    IF s.phase = "SellPlaced"
        THEN place_sell(reset_to_buy(ctx_log(s, "warn: Order canceled/rejected")), cfg)
        ELSE place_buy(reset_to_buy(ctx_log(s, "warn: Order canceled/rejected")), cfg)

on_canceled_rejected(s, cfg) ==
    place_buy(reset_to_buy(ctx_log(s, "warn: Order canceled/rejected")), cfg)

on_event(s, cfg, ev) ==
    CASE arm_of(ev) = "completed" -> on_completed(s, cfg)
      [] arm_of(ev) = "canceled_rejected" -> on_canceled_rejected(s, cfg)
      [] OTHER -> s

on_timer(s) == s

on_stop(s) == ctx_log(ctx_cancel_all(s), "info: SimpleStrategy stopped")

----------------------------------------------------------------------------
(* templates/strategy-template: MyStrategy *)

MaxIntervals == 2
LOG_INTERVAL_MS == 30000

(* MyState::new *)
MyState_new ==
    [is_initialized |-> FALSE, last_mid |-> None, active_order |-> None,
     last_log_ts |-> 0]

(* MyConfig has order_size alone of the numeric parameters *)
MyConfigOf(cfg) == [order_size |-> cfg.order_size]

my_validate(mycfg) ==
    IF mycfg.order_size <= 0 THEN <<"order_size must be > 0">> ELSE <<>>

(* self (state, instrument_meta) and ctx of the template as one record *)
MyCur == [state |-> my_state, meta |-> my_meta,
          ctx |-> [my_ctx EXCEPT !.log = <<>>]]

my_log(s, line) == [s EXCEPT !.ctx.log = Append(@, line)]
my_stop_strategy(s, reason) == [s EXCEPT !.ctx.stops = Append(@, reason)]
my_cancel_all(s) == [s EXCEPT !.ctx.cancels = @ + 1]

RECURSIVE my_log_each(_, _)
my_log_each(s, errs) ==
    IF errs = <<>> THEN s
    ELSE my_log_each(my_log(s, "error: Config error"), Tail(errs))

my_on_start(s, mycfg, lookup) ==
    LET s1 == [s EXCEPT !.meta = lookup]
        errors == my_validate(mycfg)
    IN IF is_none(s1.meta)
          THEN my_stop_strategy(my_log(s1, "error: Instrument not found"),
                                <<"Instrument not found">>)
       ELSE IF errors # <<>>
          THEN my_stop_strategy(my_log_each(s1, errors),
                                <<"Config validation failed: ">> \o join(errors, "; "))
       ELSE [my_log(s1, "info: MyStrategy started")
                EXCEPT !.state.is_initialized = TRUE]

(* an event is its kind and, for a Quote, the mid price it carries *)
my_on_event(s, ev, mid) ==
    IF ~s.state.is_initialized THEN s
    ELSE CASE ev = "Quote" -> [s EXCEPT !.state.last_mid = Some(mid)]
           [] ev = "OrderFilled" -> my_log(s, "info: Filled")
           [] ev = "OrderCompleted" ->
                 [my_log(s, "info: Completed") EXCEPT !.state.active_order = None]
           [] ev = "OrderCanceled" ->
                 [my_log(s, "info: Canceled") EXCEPT !.state.active_order = None]
           [] ev = "OrderRejected" ->
                 [my_log(s, "warn: Rejected") EXCEPT !.state.active_order = None]
           [] ev = "ExchangeStateChanged" -> my_log(s, "info: Exchange state")
           [] OTHER -> s

\* mutant: the interval counts as elapsed when exactly reached
my_on_timer_at_interval(s) ==
    LET now == s.ctx.now
    IN IF now - s.state.last_log_ts >= LOG_INTERVAL_MS
          THEN LET s1 == IF is_some(s.state.last_mid)
                            THEN my_log(s, "info: Status") ELSE s
               IN [s1 EXCEPT !.state.last_log_ts = now]
          ELSE s

(* now and last_log_ts are i64 milliseconds within 0..MaxIntervals *        *)
(* (LOG_INTERVAL_MS + 1), so the subtraction cannot overflow.               *)
my_on_timer(s) ==
    LET now == s.ctx.now
    IN IF now - s.state.last_log_ts > LOG_INTERVAL_MS
          THEN LET s1 == IF is_some(s.state.last_mid)
                            THEN my_log(s, "info: Status") ELSE s
               IN [s1 EXCEPT !.state.last_log_ts = now]
          ELSE s

my_on_stop(s) == my_cancel_all(my_log(s, "info: MyStrategy stopping"))

MyPreCtx ==
    [now |-> my_ctx.now, orders |-> my_ctx.orders,
     nStops |-> Len(my_ctx.stops), cancels |-> my_ctx.cancels]

MyCommit(s, r, op, ev) ==
    /\ my_state' = s.state
    /\ my_meta' = s.meta
    /\ my_ctx' = s.ctx
    /\ my_run' = r
    /\ my_last' = [op |-> op, ev |-> ev, pre |-> my_state, preCtx |-> MyPreCtx]
    /\ UNCHANGED <<config, simpleVars>>

MyOnStart ==
    /\ my_run = "new"
    /\ \E lookup \in MetaLookups :
          MyCommit(my_on_start(MyCur, MyConfigOf(config), lookup),
                   "started", "on_start", "-")

MyOnEvent ==
    \E ev \in EventKinds, mid \in Prices :
        /\ ev # "Quote" => mid = 1
        /\ MyCommit(my_on_event(MyCur, ev, mid), my_run, "on_event", ev)

MyOnTimer ==
    /\ my_run = "started"
    /\ MyCommit(my_on_timer(MyCur), my_run, "on_timer", "-")

MyOnStop ==
    /\ my_run = "started"
    /\ MyCommit(my_on_stop(MyCur), "stopped", "on_stop", "-")

(* the host clock (ctx.now_ms) moves on between callbacks *)
MyClock ==
    \E d \in {LOG_INTERVAL_MS - 1, LOG_INTERVAL_MS, LOG_INTERVAL_MS + 1} :
        /\ my_ctx.now + d <= MaxIntervals * (LOG_INTERVAL_MS + 1)
        /\ my_ctx' = [my_ctx EXCEPT !.now = @ + d]
        /\ UNCHANGED <<config, simpleVars, my_state, my_meta, my_run, my_last>>

MyNext == MyOnStart \/ MyOnEvent \/ MyOnTimer \/ MyOnStop \/ MyClock

----------------------------------------------------------------------------
(* The state machine *)

Pre ==
    [phase |-> phase, active_order |-> active_order, meta |-> meta,
     nOrders |-> Len(orders), nStops |-> Len(stops), cancels |-> cancels,
     outstanding |-> outstanding]

(* The events that end an order's life *)
Terminal == {"OrderCompleted", "OrderCanceled", "OrderRejected"}

Oldest(S) == CHOOSE x \in S : \A y \in S : x <= y

(* The order a delivered event is about: events come in the order the host  *)
(* received them, so a terminal event ends the oldest outstanding order;    *)
(* 0 when the event is about no order of this strategy.                     *)
TargetOf(op, ev) ==
    IF op = "on_event" /\ ev \in Terminal /\ outstanding # {}
        THEN Oldest(outstanding) ELSE 0

CompletedOf(op, ev, side) ==
    IF /\ TargetOf(op, ev) # 0
       /\ ev = "OrderCompleted"
       /\ orders[TargetOf(op, ev)].side = side
        THEN 1 ELSE 0

Commit(s, r, op, ev, lookup) ==
    /\ Len(s.orders) <= MaxOrders
    /\ phase' = s.phase
    /\ active_order' = s.active_order
    /\ meta' = s.meta
    /\ orders' = s.orders
    /\ stops' = s.stops
    /\ cancels' = s.cancels
    /\ nextId' = s.nextId
    /\ faulted' = s.faulted
    /\ callLog' = s.log
    /\ atEmit' = s.atEmit
    /\ outstanding' = (outstanding \ {TargetOf(op, ev)})
                          \cup {s.orders[i].client_id :
                                    i \in (Len(orders) + 1)..Len(s.orders)}
    /\ bought' = bought + CompletedOf(op, ev, "Buy")
    /\ sold' = sold + CompletedOf(op, ev, "Sell")
    /\ run' = r
    /\ last' = [op |-> op, ev |-> ev, lookup |-> lookup, pre |-> Pre,
                mid |-> s.mid, target |-> TargetOf(op, ev)]
    /\ UNCHANGED <<config, myVars>>

Init ==
    /\ config \in Configs
    /\ phase = NewState.phase
    /\ active_order = NewState.active_order
    /\ meta = NewState.meta
    /\ orders = NewState.orders
    /\ stops = NewState.stops
    /\ cancels = NewState.cancels
    /\ nextId = NewState.nextId
    /\ faulted = NewState.faulted
    /\ callLog = <<>>
    /\ atEmit = <<>>
    /\ outstanding = {}
    /\ bought = 0
    /\ sold = 0
    /\ run = "new"
    /\ last = [op |-> "new", ev |-> "-", lookup |-> None,
               pre |-> [phase |-> NewState.phase,
                        active_order |-> NewState.active_order,
                        meta |-> NewState.meta,
                        nOrders |-> 0, nStops |-> 0, cancels |-> 0,
                        outstanding |-> {}],
               mid |-> None, target |-> 0]
    /\ my_state = MyState_new
    /\ my_meta = None
    /\ my_ctx = [now |-> 0, orders |-> 0, stops |-> <<>>, cancels |-> 0,
                 log |-> <<>>]
    /\ my_run = "new"
    /\ my_last = [op |-> "new", ev |-> "-", pre |-> MyState_new,
                  preCtx |-> [now |-> 0, orders |-> 0, nStops |-> 0,
                              cancels |-> 0]]

(* the host starts the instance, once *)
OnStart ==
    /\ run = "new"
    /\ ~faulted
    /\ \E lookup \in MetaLookups :
          Commit(on_start(Cur, config, lookup), "started", "on_start", "-", lookup)

(* the host delivers an event; nothing in the code ties this to the lifecycle *)
OnEvent ==
    /\ ~faulted
    /\ \E ev \in EventKinds :
          Commit(on_event(Cur, config, ev), run, "on_event", ev, None)

OnTimer ==
    /\ ~faulted
    /\ run = "started"
    /\ Commit(on_timer(Cur), run, "on_timer", "-", None)

OnStop ==
    /\ ~faulted
    /\ run = "started"
    /\ Commit(on_stop(Cur), "stopped", "on_stop", "-", None)

Next == OnStart \/ OnEvent \/ OnTimer \/ OnStop

Spec == Init /\ [][Next]_vars

(* A host that delivers a terminal event only for an order that is          *)
(* outstanding, one per order, oldest first.                                *)
HostEvent ==
    /\ ~faulted
    /\ \E ev \in EventKinds :
          /\ ev \in Terminal => outstanding # {}
          /\ Commit(on_event(Cur, config, ev), run, "on_event", ev, None)

HostNext == OnStart \/ HostEvent \/ OnTimer \/ OnStop

HostSpec == Init /\ [][HostNext]_vars

(* The ordered host delivering the terminal event of the outstanding order. *)
DeliverTerminal ==
    /\ ~faulted
    /\ outstanding # {}
    /\ \E ev \in Terminal :
          Commit(on_event(Cur, config, ev), run, "on_event", ev, None)

(* The ordered host, which in the end delivers a terminal event for every   *)
(* order it was given, running an instance whose configuration is valid.    *)
(* Only the callbacks that can change the strategy's state are taken.       *)
LiveInit == Init /\ validate(config) = <<>>

LiveNext == OnStart \/ DeliverTerminal \/ OnStop

LiveSpec == LiveInit /\ [][LiveNext]_vars /\ WF_vars(DeliverTerminal)

(* The template instance alone; of the configuration it reads order_size.   *)
MyInit == Init /\ config.buy_price = 1 /\ config.sell_price = 1

MySpec == MyInit /\ [][MyNext]_vars

(* A host that starts the same instance again after it stopped it. Every    *)
(* stopped run left one cancel-all, which bounds the number of starts.      *)
OnRestart ==
    /\ run = "stopped"
    /\ ~faulted
    /\ cancels < MaxStarts
    /\ \E lookup \in MetaLookups :
          Commit(on_start(Cur, config, lookup), "started", "on_start", "-", lookup)

RestartNext == Next \/ OnRestart

RestartSpec == Init /\ [][RestartNext]_vars

TypeOK ==
    /\ config \in Configs
    /\ phase \in Phases
    /\ run \in {"new", "started", "stopped"}
    /\ faulted \in BOOLEAN
    /\ Len(orders) <= MaxOrders
    /\ Len(atEmit) = Len(orders)
    /\ nextId = Len(orders) + 1
----------------------------------------------------------------------------
(* Vocabulary of the properties *)

Placed == {"BuyPlaced", "SellPlaced"}
IsValid(cfg) == cfg.buy_price < cfg.sell_price /\ cfg.order_size > 0
Contains(reason, msg) == \E i \in 1..Len(reason) : reason[i] = msg
\* p is what the cached metadata's round_price makes of target
TickRounded(p, target) == is_some(meta) /\ p = round_price(unwrap(meta), target)
LastOrder == orders[Len(orders)]
\* the most recent callback emitted exactly n order commands
EmittedOrders(n) == Len(orders) = last.pre.nOrders + n
NoStopOrCancel == Len(stops) = last.pre.nStops /\ cancels = last.pre.cancels

----------------------------------------------------------------------------
(* C1: between on_start returning and on_stop being called, whatever events *)
(* were delivered and whether or not the start failed, active_order is Some *)
(* exactly when phase is BuyPlaced or SellPlaced.                           *)
C1_PhaseInvariant ==
    run = "started" => (is_some(active_order) <=> phase \in Placed)

\* an order was re-placed by a cancel after a start that failed on the configuration
C1_Witness ==
    /\ run = "started"
    /\ ~IsValid(config)
    /\ last.op = "on_event"
    /\ last.ev = "OrderCanceled"
    /\ phase = "BuyPlaced"
    /\ is_some(active_order)

(* C2: with an invalid configuration (buy_price >= sell_price or            *)
(* order_size <= 0) no order command is ever emitted once on_start has run, *)
(* whatever events follow.                                                  *)
C2_InvalidNeverPlaces ==
    (run # "new" /\ ~IsValid(config)) => Len(orders) = 0

(* C3: on_start with metadata present and an invalid configuration emits no *)
(* order command and exactly one stop request; its reason is non-empty and  *)
(* carries the message of every violated rule; phase stays WaitingToBuy and *)
(* active_order stays None.                                                 *)
C3_InvalidStart ==
    (last.op = "on_start" /\ is_some(last.lookup) /\ ~IsValid(config)) =>
        /\ Len(orders) = 0
        /\ Len(stops) = 1
        /\ Len(stops[1]) > 0
        /\ (config.buy_price >= config.sell_price =>
                Contains(stops[1], "buy_price must be < sell_price"))
        /\ (config.order_size <= 0 =>
                Contains(stops[1], "order_size must be > 0"))
        /\ phase = "WaitingToBuy"
        /\ active_order = None

\* a start that violated both rules
C3_Witness ==
    /\ last.op = "on_start"
    /\ is_some(last.lookup)
    /\ config.buy_price >= config.sell_price
    /\ config.order_size <= 0
    /\ Len(stops) = 1

(* C4: on_start when the host has no metadata for the instrument emits      *)
(* exactly one stop request, with reason "Instrument not found", and no     *)
(* order command, whether or not the configuration is valid.                *)
C4_MissingMetaStart ==
    (last.op = "on_start" /\ is_none(last.lookup)) =>
        /\ stops = << <<"Instrument not found">> >>
        /\ Len(orders) = 0
        /\ ~faulted

\* a start that fails on both counts
C4_Witness ==
    /\ last.op = "on_start"
    /\ is_none(last.lookup)
    /\ ~IsValid(config)
    /\ Len(stops) = 1

(* C5: no sequence of callbacks makes the strategy fault: place_buy and     *)
(* place_sell never unwrap a missing metadata record.                       *)
C5_NeverFaults == ~faulted

(* C6: an OrderCompleted event delivered in phase BuyPlaced ends in phase   *)
(* SellPlaced having emitted exactly one order command, a sell at the       *)
(* tick-rounded sell_price; delivered in phase SellPlaced it ends in phase  *)
(* BuyPlaced having emitted exactly one order command, a buy at the         *)
(* tick-rounded buy_price.                                                  *)
C6_CompletedTransitions ==
    (last.op = "on_event" /\ last.ev = "OrderCompleted") =>
        /\ last.pre.phase = "BuyPlaced" =>
              /\ ~faulted
              /\ phase = "SellPlaced"
              /\ EmittedOrders(1)
              /\ LastOrder.side = "Sell"
              /\ TickRounded(LastOrder.price, config.sell_price)
        /\ last.pre.phase = "SellPlaced" =>
              /\ ~faulted
              /\ phase = "BuyPlaced"
              /\ EmittedOrders(1)
              /\ LastOrder.side = "Buy"
              /\ TickRounded(LastOrder.price, config.buy_price)

\* a completed sell restarted the cycle, at a price the tick moved
C6_Witness ==
    /\ last.op = "on_event"
    /\ last.ev = "OrderCompleted"
    /\ last.pre.phase = "SellPlaced"
    /\ phase = "BuyPlaced"
    /\ LastOrder.price # config.buy_price

(* C7: the quantity of a sell order (order_size truncated down to a lot     *)
(* multiple) never exceeds the quantity of the buy order placed before it   *)
(* (order_size rounded to a lot multiple), for every order_size and lot.    *)
C7_SellQtyAtMostBuyQty ==
    \A i \in 1..Len(orders) :
        orders[i].side = "Sell" =>
            /\ i > 1
            /\ orders[i - 1].side = "Buy"
            /\ orders[i].qty <= orders[i - 1].qty
            /\ orders[i].qty % unwrap(meta).lot = 0
            /\ orders[i].qty <= config.order_size

\* a sell strictly smaller than its buy: the two roundings differ
C7_Witness ==
    /\ Len(orders) >= 2
    /\ LastOrder.side = "Sell"
    /\ LastOrder.qty < orders[Len(orders) - 1].qty

C9_IgnoredEvents ==
    (/\ last.op = "on_event"
     /\ last.ev \notin {"OrderCompleted", "OrderCanceled", "OrderRejected"}) =>
        /\ phase = last.pre.phase
        /\ active_order = last.pre.active_order
        /\ meta = last.pre.meta
        /\ EmittedOrders(0)
        /\ NoStopOrCancel
        /\ ~faulted

\* a partial fill delivered while a buy is outstanding
C9_Witness ==
    /\ last.op = "on_event"
    /\ last.ev = "OrderFilled"
    /\ last.pre.phase = "BuyPlaced"
    /\ phase = "BuyPlaced"

(* C10: a successful on_start (metadata present, configuration valid) emits *)
(* exactly one order command, a buy at the tick-rounded buy_price, and      *)
(* returns with phase BuyPlaced and active_order that order's identifier;   *)
(* from then on no callback returns with phase WaitingToBuy.                *)
StartSucceeded == run # "new" /\ is_some(meta) /\ IsValid(config)

C10_SuccessfulStart ==
    /\ (last.op = "on_start" /\ is_some(last.lookup) /\ IsValid(config)) =>
          /\ Len(orders) = 1
          /\ orders[1].side = "Buy"
          /\ TickRounded(orders[1].price, config.buy_price)
          /\ phase = "BuyPlaced"
          /\ active_order = Some(orders[1].client_id)
          /\ Len(stops) = 0
    /\ StartSucceeded => phase # "WaitingToBuy"

\* the first buy is out and events have been handled since
C10_Witness ==
    /\ StartSucceeded
    /\ last.op = "on_event"
    /\ last.ev = "OrderCanceled"
    /\ Len(orders) = 3

(* C11: on_stop, in any phase, emits exactly one cancel-all command and no  *)
(* order command, and is terminal for the run: after on_stop, phase and     *)
(* active_order never change again and no order command is emitted.         *)
C11_StopTerminal ==
    /\ last.op = "on_stop" =>
          /\ cancels = last.pre.cancels + 1
          /\ EmittedOrders(0)
          /\ phase = last.pre.phase
          /\ active_order = last.pre.active_order
    /\ (run = "stopped" /\ last.op # "on_stop") =>
          /\ EmittedOrders(0)
          /\ phase = last.pre.phase
          /\ active_order = last.pre.active_order

(* C12: validate returns no message exactly when buy_price < sell_price and *)
(* order_size > 0, and otherwise one message for each violated rule (two    *)
(* when both are violated, the boundaries buy_price = sell_price and        *)
(* order_size = 0 included); the configuration is not modified.             *)
RulesViolated(cfg) ==
    (IF cfg.buy_price < cfg.sell_price THEN 0 ELSE 1)
    + (IF cfg.order_size > 0 THEN 0 ELSE 1)

C12_ValidateState ==
    /\ validate(config) = <<>> <=> IsValid(config)
    /\ Len(validate(config)) = RulesViolated(config)
    /\ (last.op = "on_start" /\ is_some(last.lookup)) =>
          /\ Len(stops) = 0 <=> IsValid(config)
          /\ Len(stops) = 1 => Len(stops[1]) = 2 * RulesViolated(config) - 1

C12_Validate == []C12_ValidateState /\ [][config' = config]_vars

\* validate was applied at a start to a configuration on both boundaries
C12_Witness ==
    /\ last.op = "on_start"
    /\ is_some(last.lookup)
    /\ config.buy_price = config.sell_price
    /\ config.order_size = 0
    /\ Len(stops) = 1
    /\ Len(stops[1]) = 3

(* C16: at the moment an order command reaches the host, phase is already   *)
(* the placed phase of its side and active_order already is its identifier; *)
(* so whenever active_order is Some it names the most recent order command. *)
PlacedPhaseOf(side) == IF side = "Buy" THEN "BuyPlaced" ELSE "SellPlaced"

C16_StateBeforeEmit ==
    /\ \A i \in 1..Len(orders) :
          /\ atEmit[i].phase = PlacedPhaseOf(orders[i].side)
          /\ atEmit[i].active_order = Some(orders[i].client_id)
    /\ is_some(active_order) =>
          /\ Len(orders) > 0
          /\ active_order = Some(LastOrder.client_id)
    /\ \A i, j \in 1..Len(orders) :
          orders[i].client_id = orders[j].client_id => i = j

\* a sell command reached the host after a buy command
C16_Witness ==
    /\ Len(orders) >= 2
    /\ LastOrder.side = "Sell"
    /\ atEmit[Len(orders)].phase = "SellPlaced"
    /\ active_order = Some(LastOrder.client_id)

(* C18: no callback ever returns with phase WaitingToSell.                  *)
C18_NeverWaitingToSell == phase # "WaitingToSell"

\* a buy completed, the point where the declared lifecycle has WaitingToSell
C18_Witness ==
    /\ last.op = "on_event"
    /\ last.ev = "OrderCompleted"
    /\ last.pre.phase = "BuyPlaced"
    /\ phase = "SellPlaced"

(* C20: in the order commands of one run the first is a buy, every sell     *)
(* directly follows a buy, and a buy directly follows a buy only when the   *)
(* callback that emitted it handled an OrderCanceled or OrderRejected event.*)
C20_SidesAlternate ==
    /\ Len(orders) > 0 => orders[1].side = "Buy"
    /\ \A i \in 2..Len(orders) :
          orders[i].side = "Sell" => orders[i - 1].side = "Buy"
    /\ (/\ EmittedOrders(1)
        /\ Len(orders) >= 2
        /\ LastOrder.side = "Buy"
        /\ orders[Len(orders) - 1].side = "Buy") =>
            /\ last.op = "on_event"
            /\ last.ev \in {"OrderCanceled", "OrderRejected"}
    /\ Len(orders) <= last.pre.nOrders + 1

\* buy, buy (after a reject), sell
C20_Witness ==
    /\ Len(orders) = 3
    /\ orders[1].side = "Buy"
    /\ orders[2].side = "Buy"
    /\ orders[3].side = "Sell"

(* C13: one position at a time: the number of completed buy orders minus   *)
(* the number of completed sell orders is always 0 or 1, and a buy order is *)
(* placed only when that difference is 0.                                   *)
C13_OnePosition ==
    /\ bought - sold \in {0, 1}
    /\ (Len(orders) > last.pre.nOrders /\ LastOrder.side = "Buy") =>
          bought - sold = 0

(* C17: with a host that delivers one terminal event per order, in order,   *)
(* at most one order is outstanding between start and stop, and an order    *)
(* command is emitted only by a successful start or by the callback that    *)
(* handles the terminal event of the order placed before it.                *)
C17_OneOutstanding ==
    run = "started" =>
        /\ Cardinality(outstanding) <= 1
        /\ Len(orders) > last.pre.nOrders =>
              /\ EmittedOrders(1)
              /\ outstanding = {LastOrder.client_id}
              /\ \/ /\ last.op = "on_start"
                    /\ is_some(last.lookup)
                    /\ IsValid(config)
                    /\ last.pre.outstanding = {}
                 \/ /\ last.op = "on_event"
                    /\ last.ev \in Terminal
                    /\ last.target = orders[last.pre.nOrders].client_id
                    /\ last.pre.outstanding = {last.target}

\* the third order is outstanding, the two before it had their terminal events
C17_Witness ==
    /\ run = "started"
    /\ Len(orders) = 3
    /\ outstanding = {3}
    /\ last.ev = "OrderRejected"

(* C14: runtime state is rebuilt at every start: whatever an earlier run on *)
(* the same instance left behind, the state when on_start returns depends   *)
(* only on the configuration and the metadata lookup; an on_start that      *)
(* fails leaves phase WaitingToBuy and active_order None.                   *)
C14_RebuiltAtStart ==
    last.op = "on_start" =>
        /\ meta = last.lookup
        /\ IF is_some(last.lookup) /\ IsValid(config)
              THEN /\ phase = "BuyPlaced"
                   /\ Len(orders) > 0
                   /\ active_order = Some(LastOrder.client_id)
              ELSE /\ phase = "WaitingToBuy"
                   /\ active_order = None

(* C15: after a successful start, as long as on_stop is not called and the *)
(* host delivers a terminal event for every order, another order is always  *)
(* placed in the end (here: until MaxOrders commands were emitted); an      *)
(* order placed on a completion is of the other side than the completed     *)
(* one, so with completions only buys and sells both keep being placed.     *)
C15_NextOrderPlaced ==
    (StartSucceeded /\ run = "started")
        ~> (Len(orders) = MaxOrders \/ run = "stopped")

C15_CompletionFlipsSide ==
    (/\ StartSucceeded
     /\ last.op = "on_event"
     /\ last.ev = "OrderCompleted"
     /\ last.target # 0) =>
        /\ EmittedOrders(1)
        /\ LastOrder.side # orders[last.target].side

C15_Liveness == C15_NextOrderPlaced /\ []C15_CompletionFlipsSide

\* the cycle ran to the last order the bound allows, on completions
C15_Witness ==
    /\ StartSucceeded
    /\ run = "started"
    /\ Len(orders) = MaxOrders
    /\ bought = 2
    /\ sold = 1

(* C19 as claimed: on every on_timer of the template, if more than the     *)
(* interval (30_000 ms) has passed since last_log_ts a status log is        *)
(* emitted and last_log_ts becomes the current time; otherwise nothing is   *)
(* emitted and last_log_ts is unchanged; in both cases active_order and     *)
(* last_mid are unchanged and no order, cancel or stop command is emitted.  *)
\* the time ctx.now_ms gave the most recent callback
MyNow == my_last.preCtx.now
MyElapsed == MyNow - my_last.pre.last_log_ts
MyTimerFrame ==
    /\ my_state.active_order = my_last.pre.active_order
    /\ my_state.last_mid = my_last.pre.last_mid
    /\ my_state.is_initialized = my_last.pre.is_initialized
    /\ my_ctx.orders = my_last.preCtx.orders
    /\ Len(my_ctx.stops) = my_last.preCtx.nStops
    /\ my_ctx.cancels = my_last.preCtx.cancels

C19_TimerAsClaimed ==
    my_last.op = "on_timer" =>
        /\ IF MyElapsed > 30000
              THEN /\ my_ctx.log = <<"info: Status">>
                   /\ my_state.last_log_ts = MyNow
              ELSE /\ my_ctx.log = <<>>
                   /\ my_state.last_log_ts = my_last.pre.last_log_ts
        /\ MyTimerFrame

(* C19 amended: once more than the interval has passed, on_timer sets       *)
(* last_log_ts to the current time, and emits the status log only if a mid  *)
(* price has been observed (last_mid is Some); otherwise it emits nothing   *)
(* and leaves last_log_ts unchanged; the frame is as claimed.               *)
C19_Timer ==
    my_last.op = "on_timer" =>
        /\ IF MyElapsed > 30000
              THEN /\ my_ctx.log = IF is_some(my_last.pre.last_mid)
                                      THEN <<"info: Status">> ELSE <<>>
                   /\ my_state.last_log_ts = MyNow
              ELSE /\ my_ctx.log = <<>>
                   /\ my_state.last_log_ts = my_last.pre.last_log_ts
        /\ MyTimerFrame

\* the interval has passed and no quote was ever seen: the timestamp moves, no log
C19_Witness ==
    /\ my_last.op = "on_timer"
    /\ MyElapsed > 30000
    /\ is_none(my_last.pre.last_mid)
    /\ my_ctx.log = <<>>
    /\ my_state.last_log_ts = MyNow

====
